---- MODULE Spec2Model ----
(***************************************************************************)
(* A model of the bitcask core: the record codec of src/core/serdes.rs     *)
(* (KeyValue::new, serialize, deserialize, parse_input, calculate_crc) and  *)
(* the key directory of src/core/keyfile.rs (BitcaskKeyFile).               *)
(*                                                                         *)
(* Bytes are the integers 0..255.  A 32-bit checksum is kept as its four   *)
(* big-endian bytes, the form calculate_crc returns it in.                  *)
(***************************************************************************)
EXTENDS Integers, Sequences, FiniteSets, TLC

VARIABLES
    written,    \* the records serialized and appended to the data file, in order
    log,        \* the bytes of the data file
    damage,     \* what happened to the data file after it was written
    pos,        \* the reader's offset into the data file
    decoded,    \* the results of the deserialize calls made so far, with their offsets
    oversized,  \* the outcome of serializing and deserializing an oversized record
    key_map,    \* BitcaskKeyFile.key_map
    disk,       \* the file at BitcaskKeyFile.file_path
    op,         \* the last call made on the key directory
    ret,        \* what that call returned
    last,       \* per key: the last add_key/remove_key since the mapping was built
    snapshot    \* the mapping at the moment of the last completed save

vars == <<written, log, damage, pos, decoded, oversized, key_map, disk, op, ret, last, snapshot>>
codecVars == <<written, log, damage, pos, decoded, oversized>>
keyDirVars == <<key_map, disk, op, ret, last, snapshot>>

-----------------------------------------------------------------------------
(* Bounds of the model. *)

MaxKeyLen == 2
MaxValueLen == 2
MaxRecords == 2
NumKeys == 2

(* Program constants. *)

HeaderSize == 16
U16Range == 65536
DEFAULT_BUF_SIZE == 8192

-----------------------------------------------------------------------------
(* Bytes and integers. *)

\* the sequence of n bytes b, as a tuple
Fill(n, b) == <<>> \o [i \in 1..n |-> b]

RECURSIVE XorBits(_, _, _)
XorBits(a, b, n) ==
    IF n = 0 THEN 0
    ELSE ((a + b) % 2) + 2 * XorBits(a \div 2, b \div 2, n - 1)

XorTab == [a \in 0..255 |-> [b \in 0..255 |-> XorBits(a, b, 8)]]

XorByte(a, b) == XorTab[a][b]

Xor4(a, b) == <<XorByte(a[1], b[1]), XorByte(a[2], b[2]),
                XorByte(a[3], b[3]), XorByte(a[4], b[4])>>

\* n.to_be_bytes() of a w-byte unsigned integer
RECURSIVE to_be_bytes(_, _)
to_be_bytes(n, w) ==
    IF w = 0 THEN <<>> ELSE Append(to_be_bytes(n \div 256, w - 1), n % 256)

\* u16::from_be_bytes
from_be_bytes(b) == b[1] * 256 + b[2]

\* `len as u16`: the cast keeps the low 16 bits
as_u16(n) == n % U16Range

-----------------------------------------------------------------------------
(* CRC-32 (crc32fast::Hasher): reflected polynomial 0xEDB88320, initial     *)
(* state 0xFFFFFFFF, final complement.                                      *)

Poly == <<237, 184, 131, 32>>
AllOnes == <<255, 255, 255, 255>>

Shr1(c) == <<c[1] \div 2,
             (c[2] \div 2) + (c[1] % 2) * 128,
             (c[3] \div 2) + (c[2] % 2) * 128,
             (c[4] \div 2) + (c[3] % 2) * 128>>

RECURSIVE TableRound(_, _)
TableRound(c, n) ==
    IF n = 0 THEN c
    ELSE TableRound(IF c[4] % 2 = 1 THEN Xor4(Shr1(c), Poly) ELSE Shr1(c), n - 1)

CrcTable == [i \in 0..255 |-> TableRound(<<0, 0, 0, i>>, 8)]

\* one byte into the hasher state: table[(state ^ b) & 0xFF] ^ (state >> 8)
HasherStep(c, b) ==
    LET t == CrcTable[XorByte(c[4], b)]
    IN  <<t[1], XorByte(t[2], c[1]), XorByte(t[3], c[2]), XorByte(t[4], c[3])>>

\* bytes lo..hi of s into the hasher state, in order.  The left half is
\* evaluated before the right half is entered, which keeps the depth of the
\* evaluation logarithmic in the length.
RECURSIVE HasherRange(_, _, _, _)
HasherRange(c, s, lo, hi) ==
    IF lo > hi THEN c
    ELSE IF lo = hi THEN HasherStep(c, s[lo])
    ELSE LET mid == (lo + hi) \div 2
             left == HasherRange(c, s, lo, mid)
         IN  IF Len(left) = 4 THEN HasherRange(left, s, mid + 1, hi) ELSE left

hasher_update(c, s) == HasherRange(c, s, 1, Len(s))

hasher_finalize(c) == Xor4(c, AllOnes)

calculate_crc(key, value) ==
    hasher_finalize(hasher_update(hasher_update(AllOnes, key), value))

-----------------------------------------------------------------------------
(* The record codec. *)

NoKv == [key |-> <<>>, value |-> <<>>, timestamp |-> <<>>]

\* KeyValue::new: the low 8 of the 16 big-endian bytes of the u128 millis
new(key, value, millis) ==
    LET millis_bytes == to_be_bytes(millis, 16)
    IN  [key |-> key, value |-> value, timestamp |-> SubSeq(millis_bytes, 9, 16)]

serialize_saturating(a) ==
    LET sat(n) == IF n >= U16Range THEN U16Range - 1 ELSE n
    IN  calculate_crc(a.key, a.value)
            \o a.timestamp
            \o to_be_bytes(sat(Len(a.key)), 2)
            \o to_be_bytes(sat(Len(a.value)), 2)
            \o a.key
            \o a.value

serialize_lengths_swapped(a) ==
    calculate_crc(a.key, a.value)
        \o a.timestamp
        \o to_be_bytes(as_u16(Len(a.value)), 2)
        \o to_be_bytes(as_u16(Len(a.key)), 2)
        \o a.key
        \o a.value

serialize(a) ==
    calculate_crc(a.key, a.value)
        \o a.timestamp
        \o to_be_bytes(as_u16(Len(a.key)), 2)
        \o to_be_bytes(as_u16(Len(a.value)), 2)
        \o a.key
        \o a.value

ParseErr(msg) ==
    [ok |-> FALSE, message |-> msg, crc_bytes |-> <<>>, timestamp_bytes |-> <<>>,
     key_length |-> 0, value_length |-> 0, key |-> <<>>, value |-> <<>>]

\* a parse_input without the second length check, reading what is there
parse_input_header_only(input) ==
    IF Len(input) < HeaderSize THEN ParseErr("Input too short")
    ELSE
        LET key_length == from_be_bytes(SubSeq(input, 13, 14))
            value_length == from_be_bytes(SubSeq(input, 15, 16))
            Min(a, b) == IF a < b THEN a ELSE b
            kend == Min(Len(input), HeaderSize + key_length)
            vend == Min(Len(input), HeaderSize + key_length + value_length)
        IN  [ok |-> TRUE, message |-> "",
             crc_bytes |-> SubSeq(input, 1, 4),
             timestamp_bytes |-> SubSeq(input, 5, 12),
             key_length |-> key_length,
             value_length |-> value_length,
             key |-> SubSeq(input, HeaderSize + 1, kend),
             value |-> SubSeq(input, kend + 1, vend)]

\* a parse_input that takes the value to the end of the input
parse_input_greedy(input) ==
    IF Len(input) < HeaderSize THEN ParseErr("Input too short")
    ELSE
        LET key_length == from_be_bytes(SubSeq(input, 13, 14))
            value_length == from_be_bytes(SubSeq(input, 15, 16))
        IN  IF Len(input) < HeaderSize + key_length + value_length
            THEN ParseErr("Input too short")
            ELSE [ok |-> TRUE, message |-> "",
                  crc_bytes |-> SubSeq(input, 1, 4),
                  timestamp_bytes |-> SubSeq(input, 5, 12),
                  key_length |-> key_length,
                  value_length |-> Len(input) - HeaderSize - key_length,
                  key |-> SubSeq(input, HeaderSize + 1, HeaderSize + key_length),
                  value |-> SubSeq(input, HeaderSize + key_length + 1, Len(input))]

parse_input(input) ==
    IF Len(input) < HeaderSize THEN ParseErr("Input too short")
    ELSE
        \* the two try_into conversions are of 2-byte slices and cannot fail
        LET key_length == from_be_bytes(SubSeq(input, 13, 14))
            value_length == from_be_bytes(SubSeq(input, 15, 16))
        IN  IF Len(input) < HeaderSize + key_length + value_length
            THEN ParseErr("Input too short")
            ELSE [ok |-> TRUE, message |-> "",
                  crc_bytes |-> SubSeq(input, 1, 4),
                  timestamp_bytes |-> SubSeq(input, 5, 12),
                  key_length |-> key_length,
                  value_length |-> value_length,
                  key |-> SubSeq(input, HeaderSize + 1, HeaderSize + key_length),
                  value |-> SubSeq(input, HeaderSize + key_length + 1,
                                   HeaderSize + key_length + value_length)]

DeErr(msg) == [ok |-> FALSE, message |-> msg, kv |-> NoKv]
DeOk(kv) == [ok |-> TRUE, message |-> "", kv |-> kv]

deserialize_unchecked(input) ==
    LET parsed_bytes == parse_input(input)
    IN  IF ~parsed_bytes.ok THEN DeErr(parsed_bytes.message)
        ELSE DeOk([key |-> parsed_bytes.key,
                   value |-> parsed_bytes.value,
                   timestamp |-> parsed_bytes.timestamp_bytes])

deserialize(input) ==
    LET parsed_bytes == parse_input(input)
    IN  IF ~parsed_bytes.ok THEN DeErr(parsed_bytes.message)
        ELSE LET expected_crc_bytes == calculate_crc(parsed_bytes.key, parsed_bytes.value)
             IN  IF parsed_bytes.crc_bytes = expected_crc_bytes
                 THEN DeOk([key |-> parsed_bytes.key,
                            value |-> parsed_bytes.value,
                            timestamp |-> parsed_bytes.timestamp_bytes])
                 ELSE DeErr("Invalid CRC32 checksum")

-----------------------------------------------------------------------------
(* The inputs of the codec. *)

KeyBytes == {107}
ValueBytes == {118}
Millis == {0, 1700000000}
GarbageBytes == {0, 255}

Keys == {Fill(n, b) : n \in 0..MaxKeyLen, b \in KeyBytes}
Values == {Fill(n, b) : n \in 0..MaxValueLen, b \in ValueBytes}

\* keys and values whose length does not fit the 2-byte length field
OversizedKeys == {Fill(U16Range + d, b) : d \in 0..1, b \in KeyBytes}
OversizedValues == {Fill(U16Range + d, b) : d \in 0..1, b \in ValueBytes}

Fits(kv) == Len(kv.key) < U16Range /\ Len(kv.value) < U16Range

NoDamage == [kind |-> "none", at |-> 0]

NoOversized ==
    [key_length |-> 0, value_length |-> 0, encoded_length |-> 0,
     header |-> <<>>, res |-> [ok |-> FALSE, message |-> "", kv |-> NoKv],
     equal |-> FALSE]

-----------------------------------------------------------------------------
(* The key directory: values. *)

\* Option<KeyMetadata>
NoMeta == [file_id |-> 0, offset |-> 0, size |-> 0]
None == [some |-> FALSE, v |-> NoMeta]
Some(m) == [some |-> TRUE, v |-> m]

\* Result<(), Box<dyn Error>>, and the return value of the calls that cannot fail
Ok == [ok |-> TRUE, v |-> None]
Err == [ok |-> FALSE, v |-> None]
Returned(option) == [ok |-> TRUE, v |-> option]

\* HashMap::new()
EmptyMap == [k \in {} |-> NoMeta]

\* HashMap::get
get(map, k) == IF k \in DOMAIN map THEN Some(map[k]) ELSE None

\* HashMap::insert
insert(map, k, m) == [j \in DOMAIN map \cup {k} |-> IF j = k THEN m ELSE map[j]]

\* HashMap::remove (the map that is left)
remove(map, k) == [j \in DOMAIN map \ {k} |-> map[j]]

\* the keys "k1", "k2", ... as the bytes of the strings
KeyNames == {<<107, 48 + i>> : i \in 1..NumKeys}
FileIds == {0, 1}
Offsets == {300}
Sizes == {26}

Untouched == [kind |-> "none", v |-> NoMeta]
Replaced == [kind |-> "load", v |-> NoMeta]

-----------------------------------------------------------------------------
(* bincode (fixed-width little-endian integers; a map is its u64 length and *)
(* its entries; a string is its u64 length and its bytes; a struct is its   *)
(* fields in order).                                                        *)

RECURSIVE to_le_bytes(_, _)
to_le_bytes(n, w) ==
    IF w = 0 THEN <<>> ELSE <<n % 256>> \o to_le_bytes(n \div 256, w - 1)

RECURSIVE from_le_bytes(_)
from_le_bytes(b) ==
    IF b = <<>> THEN 0 ELSE b[1] + 256 * from_le_bytes(Tail(b))

serialize_meta_fields_swapped(m) ==
    to_le_bytes(m.file_id, 4) \o to_le_bytes(m.size, 8) \o to_le_bytes(m.offset, 8)

serialize_meta(m) ==
    to_le_bytes(m.file_id, 4) \o to_le_bytes(m.offset, 8) \o to_le_bytes(m.size, 8)

serialize_string(k) == to_le_bytes(Len(k), 8) \o k

\* the entries of map in the order the HashMap iterates them
RECURSIVE serialize_entries(_, _)
serialize_entries(map, order) ==
    IF order = <<>> THEN <<>>
    ELSE serialize_string(Head(order)) \o serialize_meta(map[Head(order)])
            \o serialize_entries(map, Tail(order))

bincode_serialize(map, order) ==
    to_le_bytes(Len(order), 8) \o serialize_entries(map, order)

\* the orders a HashMap may iterate its keys in: every one
IterationOrders(map) ==
    {order \in [1..Cardinality(DOMAIN map) -> DOMAIN map] :
        \A a, b \in 1..Cardinality(DOMAIN map) : a /= b => order[a] /= order[b]}

DecodeErr == [ok |-> FALSE, map |-> EmptyMap]

\* n more entries read from buf at offset at into map; any read past the end
\* of buf is an error (trailing bytes are allowed)
RECURSIVE deserialize_entries(_, _, _, _)
deserialize_entries(buf, at, n, map) ==
    IF n = 0 THEN [ok |-> TRUE, map |-> map]
    ELSE IF at + 8 > Len(buf) THEN DecodeErr
    ELSE
        LET klen == from_le_bytes(SubSeq(buf, at + 1, at + 8))
            kend == at + 8 + klen
        IN  IF kend + 20 > Len(buf) THEN DecodeErr
            ELSE deserialize_entries(buf, kend + 20, n - 1,
                    insert(map, SubSeq(buf, at + 9, kend),
                           [file_id |-> from_le_bytes(SubSeq(buf, kend + 1, kend + 4)),
                            offset |-> from_le_bytes(SubSeq(buf, kend + 5, kend + 12)),
                            size |-> from_le_bytes(SubSeq(buf, kend + 13, kend + 20))]))

bincode_deserialize(buf) ==
    IF Len(buf) < 8 THEN DecodeErr
    ELSE deserialize_entries(buf, 8, from_le_bytes(SubSeq(buf, 1, 8)), EmptyMap)

NoFile == [exists |-> FALSE, bytes |-> <<>>]
File(bytes) == [exists |-> TRUE, bytes |-> bytes]

Call(name, key) == [name |-> name, key |-> key]

-----------------------------------------------------------------------------
(* The initial state: an empty data file, and BitcaskKeyFile::new on a path *)
(* that holds no file.                                                      *)

Init ==
    /\ written = <<>>
    /\ log = <<>>
    /\ damage = NoDamage
    /\ pos = 0
    /\ decoded = <<>>
    /\ oversized = NoOversized
    /\ key_map = EmptyMap
    /\ disk = NoFile
    /\ op = Call("new", <<>>)
    /\ ret = Ok
    /\ last = [k \in KeyNames |-> Untouched]
    /\ snapshot = EmptyMap

-----------------------------------------------------------------------------
(* The writer and the reader of the data file. *)

\* main: build a record, serialize it, append the bytes to the data file
Write(key, value, millis) ==
    /\ damage = NoDamage
    /\ decoded = <<>>
    /\ oversized = NoOversized
    /\ Len(written) < MaxRecords
    /\ LET kv == new(key, value, millis)
       IN  /\ written' = Append(written, kv)
           /\ log' = log \o serialize(kv)
    /\ UNCHANGED <<damage, pos, decoded, oversized>>
    /\ UNCHANGED keyDirVars

\* a record with a key or a value of 65536 bytes or more, serialized and
\* deserialized at once; what is kept of it: the lengths, the 16 header
\* bytes, the result, and whether the result is the record
RoundTripOversized(key, value, millis) ==
    /\ oversized = NoOversized
    /\ written = <<>>
    /\ damage = NoDamage
    /\ decoded = <<>>
    /\ \E kv \in {new(key, value, millis)} :
        /\ ~Fits(kv)
        /\ \E serialized \in {serialize(kv)} :
            \E deserialized \in {deserialize(serialized)} :
                oversized' = [key_length |-> Len(kv.key),
                              value_length |-> Len(kv.value),
                              encoded_length |-> Len(serialized),
                              header |-> SubSeq(serialized, 1, HeaderSize),
                              res |-> deserialized,
                              equal |-> (deserialized = DeOk(kv))]
    /\ UNCHANGED <<written, log, damage, pos, decoded>>
    /\ UNCHANGED keyDirVars

\* storage corruption: one bit of one byte of a single stored record flips
FlipBit(i, bit) ==
    /\ damage = NoDamage
    /\ decoded = <<>>
    /\ Len(written) = 1
    /\ i \in 1..Len(log)
    /\ log' = [log EXCEPT ![i] = XorByte(@, 2 ^ bit)]
    /\ damage' = [kind |-> "flip", at |-> i]
    /\ UNCHANGED <<written, pos, decoded, oversized>>
    /\ UNCHANGED keyDirVars

\* a crash in the middle of the append: only the first n bytes are stored
Truncate(n) ==
    /\ damage = NoDamage
    /\ decoded = <<>>
    /\ Len(written) = 1
    /\ n < Len(log)
    /\ log' = SubSeq(log, 1, n)
    /\ damage' = [kind |-> "truncate", at |-> n]
    /\ UNCHANGED <<written, pos, decoded, oversized>>
    /\ UNCHANGED keyDirVars

\* a data file that no serialize call produced
Garbage(n, b) ==
    /\ damage = NoDamage
    /\ decoded = <<>>
    /\ written = <<>>
    /\ oversized = NoOversized
    /\ log' = Fill(n, b)
    /\ damage' = [kind |-> "garbage", at |-> n]
    /\ UNCHANGED <<written, pos, decoded, oversized>>
    /\ UNCHANGED keyDirVars

\* the reader: deserialize what follows the offset, then step over the record
Decode ==
    /\ Len(decoded) <= MaxRecords
    /\ oversized = NoOversized
    /\ \/ decoded = <<>>
       \/ decoded /= <<>> /\ decoded[Len(decoded)].res.ok /\ pos < Len(log)
    /\ LET res == deserialize(SubSeq(log, pos + 1, Len(log)))
       IN  /\ decoded' = Append(decoded, [at |-> pos, res |-> res])
           /\ pos' = IF res.ok
                     THEN pos + HeaderSize + Len(res.kv.key) + Len(res.kv.value)
                     ELSE pos
    /\ UNCHANGED <<written, log, damage, oversized>>
    /\ UNCHANGED keyDirVars

Next ==
    \/ \E key \in Keys, value \in Values, millis \in Millis :
            Write(key, value, millis)
    \/ \E key \in OversizedKeys, value \in Values :
            RoundTripOversized(key, value, 0)
    \/ \E key \in Keys, value \in OversizedValues :
            RoundTripOversized(key, value, 0)
    \/ \E i \in 1..(HeaderSize + MaxKeyLen + MaxValueLen), bit \in 0..7 :
            FlipBit(i, bit)
    \/ \E n \in 0..(HeaderSize + MaxKeyLen + MaxValueLen) : Truncate(n)
    \/ \E n \in 0..(HeaderSize + MaxKeyLen), b \in GarbageBytes : Garbage(n, b)
    \/ Decode

Spec == Init /\ [][Next]_vars

-----------------------------------------------------------------------------
(* The key directory: BitcaskKeyFile. *)

\* BitcaskKeyFile::new on the same path: a fresh, empty directory
New ==
    /\ key_map' = EmptyMap
    /\ last' = [k \in KeyNames |-> Untouched]
    /\ op' = Call("new", <<>>)
    /\ ret' = Ok
    /\ UNCHANGED <<disk, snapshot>>
    /\ UNCHANGED codecVars

LoadResetting ==
    /\ op' = Call("load", <<>>)
    /\ IF disk.exists
       THEN LET read == bincode_deserialize(disk.bytes)
            IN  IF read.ok
                THEN /\ key_map' = read.map
                     /\ last' = [k \in KeyNames |-> Replaced]
                     /\ ret' = Ok
                ELSE /\ ret' = Err
                     /\ UNCHANGED <<key_map, last>>
       ELSE /\ ret' = Ok
            /\ key_map' = EmptyMap
            /\ last' = [k \in KeyNames |-> Untouched]
    /\ UNCHANGED <<disk, snapshot>>
    /\ UNCHANGED codecVars

\* load: read the whole file, if there is one, and replace the mapping
Load ==
    /\ op' = Call("load", <<>>)
    /\ IF disk.exists
       THEN LET read == bincode_deserialize(disk.bytes)
            IN  IF read.ok
                THEN /\ key_map' = read.map
                     /\ last' = [k \in KeyNames |-> Replaced]
                     /\ ret' = Ok
                ELSE /\ ret' = Err
                     /\ UNCHANGED <<key_map, last>>
       ELSE /\ ret' = Ok
            /\ UNCHANGED <<key_map, last>>
    /\ UNCHANGED <<disk, snapshot>>
    /\ UNCHANGED codecVars

\* save: create or truncate the file, write the serialized mapping, and
\* flush it as the BufWriter is dropped
Save(order) ==
    /\ disk' = File(bincode_serialize(key_map, order))
    /\ snapshot' = key_map
    /\ op' = Call("save", <<>>)
    /\ ret' = Ok
    /\ UNCHANGED <<key_map, last>>
    /\ UNCHANGED codecVars

AddKeyIfAbsent(key, file_id, offset, size) ==
    /\ key_map' = IF key \in DOMAIN key_map THEN key_map
                  ELSE insert(key_map, key,
                              [file_id |-> file_id, offset |-> offset, size |-> size])
    /\ last' = [last EXCEPT ![key] =
                    [kind |-> "add",
                     v |-> [file_id |-> file_id, offset |-> offset, size |-> size]]]
    /\ op' = Call("add_key", key)
    /\ ret' = Ok
    /\ UNCHANGED <<disk, snapshot>>
    /\ UNCHANGED codecVars

AddKey(key, file_id, offset, size) ==
    /\ key_map' = insert(key_map, key,
                         [file_id |-> file_id, offset |-> offset, size |-> size])
    /\ last' = [last EXCEPT ![key] =
                    [kind |-> "add",
                     v |-> [file_id |-> file_id, offset |-> offset, size |-> size]]]
    /\ op' = Call("add_key", key)
    /\ ret' = Ok
    /\ UNCHANGED <<disk, snapshot>>
    /\ UNCHANGED codecVars

GetKeyInfoTaking(key) ==
    /\ op' = Call("get_key_info", key)
    /\ ret' = Returned(get(key_map, key))
    /\ key_map' = remove(key_map, key)
    /\ UNCHANGED <<disk, last, snapshot>>
    /\ UNCHANGED codecVars

GetKeyInfo(key) ==
    /\ op' = Call("get_key_info", key)
    /\ ret' = Returned(get(key_map, key))
    /\ UNCHANGED <<key_map, disk, last, snapshot>>
    /\ UNCHANGED codecVars

RemoveKey(key) ==
    /\ op' = Call("remove_key", key)
    /\ ret' = Returned(get(key_map, key))
    /\ key_map' = remove(key_map, key)
    /\ last' = [last EXCEPT ![key] = [kind |-> "remove", v |-> NoMeta]]
    /\ UNCHANGED <<disk, snapshot>>
    /\ UNCHANGED codecVars

NextKeyDir ==
    \/ New
    \/ Load
    \/ \E order \in IterationOrders(key_map) : Save(order)
    \/ \E key \in KeyNames, file_id \in FileIds, offset \in Offsets, size \in Sizes :
            AddKey(key, file_id, offset, size)
    \/ \E key \in KeyNames : GetKeyInfo(key)
    \/ \E key \in KeyNames : RemoveKey(key)

SpecKeyDir == Init /\ [][NextKeyDir]_vars

(* Interrupted saves.  The file is truncated when it is opened and the      *)
(* serialized mapping reaches it only as the BufWriter is flushed.          *)

\* open fails: nothing is touched, the error is returned
SaveOpenFails ==
    /\ op' = Call("save", <<>>)
    /\ ret' = Err
    /\ UNCHANGED <<key_map, disk, last, snapshot>>
    /\ UNCHANGED codecVars

\* the write fails after n bytes.  A buffer below the BufWriter's capacity
\* is written as the BufWriter is dropped, where the error is ignored.
SaveWriteFails(order, n) ==
    \E buf \in {bincode_serialize(key_map, order)} :
        /\ n < Len(buf)
        /\ disk' = File(SubSeq(buf, 1, n))
        /\ op' = Call("save", <<>>)
        /\ ret' = IF Len(buf) >= DEFAULT_BUF_SIZE THEN Err ELSE Ok
        /\ UNCHANGED <<key_map, last, snapshot>>
        /\ UNCHANGED codecVars

\* the process dies in save after n bytes reached the file; the next
\* process starts with BitcaskKeyFile::new
SaveCrashes(order, n) ==
    \E buf \in {bincode_serialize(key_map, order)} :
        /\ n < Len(buf)
        /\ disk' = File(SubSeq(buf, 1, n))
        /\ key_map' = EmptyMap
        /\ last' = [k \in KeyNames |-> Untouched]
        /\ op' = Call("new", <<>>)
        /\ ret' = Ok
        /\ UNCHANGED snapshot
        /\ UNCHANGED codecVars

\* where a write is cut: before the first byte, inside the map's length,
\* after it, inside the first entry
CutPoints == {0, 4, 8, 20}

NextKeyDirFaults ==
    \/ NextKeyDir
    \/ SaveOpenFails
    \/ \E order \in IterationOrders(key_map), n \in CutPoints :
            SaveWriteFails(order, n)
    \/ \E order \in IterationOrders(key_map), n \in CutPoints :
            SaveCrashes(order, n)

SpecKeyDirFaults == Init /\ [][NextKeyDirFaults]_vars

-----------------------------------------------------------------------------
(* Properties of the codec. *)

TooShort == DeErr("Input too short")
BadCrc == DeErr("Invalid CRC32 checksum")

\* the length of the encoding of a record that fits
EncodedLen(kv) == HeaderSize + Len(kv.key) + Len(kv.value)

\* the offset at which the k-th written record starts
RECURSIVE OffsetOf(_)
OffsetOf(k) == IF k <= 1 THEN 0 ELSE OffsetOf(k - 1) + EncodedLen(written[k - 1])

\* the fields of the single stored record, as sets of byte positions
CrcField == 1..4
TimestampField == 5..12
KeyField == (HeaderSize + 1)..(HeaderSize + Len(written[1].key))
ValueField == (HeaderSize + Len(written[1].key) + 1)..EncodedLen(written[1])

(* C1: deserialize(serialize(r)) succeeds and returns r (key, value and     *)
(* timestamp bytes) for every record r whose key and value fit 16 bits.     *)
C1_RoundTrip ==
    (/\ Len(written) = 1
     /\ Fits(written[1])
     /\ Len(written[1].timestamp) = 8
     /\ damage = NoDamage
     /\ Len(decoded) >= 1)
        => decoded[1].res = DeOk(written[1])

C1_Witness ==
    /\ Len(written) = 1
    /\ damage = NoDamage
    /\ Len(decoded) = 1
    /\ decoded[1].res.ok
    /\ Len(written[1].key) = MaxKeyLen
    /\ Len(written[1].value) = 1
    /\ written[1].timestamp /= Fill(8, 0)
    /\ decoded[1].res.kv.timestamp = written[1].timestamp

\* a damaged key and value that have the checksum the record stores
C2_Collision ==
    /\ decoded[1].res.ok
    /\ decoded[1].res.kv.key \o decoded[1].res.kv.value
            /= written[1].key \o written[1].value

(* C2 as stated: a single bit flipped in the checksum field, the timestamp  *)
(* field, the key bytes or the value bytes of a valid record makes          *)
(* deserialize fail with "Invalid CRC32 checksum", unless the damaged key    *)
(* and value collide with the stored checksum.                              *)
C2_EveryFieldDetected ==
    (/\ damage.kind = "flip"
     /\ damage.at \in CrcField \cup TimestampField \cup KeyField \cup ValueField
     /\ Len(decoded) >= 1)
        => (decoded[1].res = BadCrc \/ C2_Collision)

(* C2 amended: a single bit flipped in the checksum field, the key bytes or *)
(* the value bytes makes deserialize fail with "Invalid CRC32 checksum"; a   *)
(* bit flipped in the timestamp field is not detected: deserialize succeeds *)
(* and returns the key and the value with the damaged timestamp.            *)
C2_ChecksumCoversKeyAndValue ==
    (damage.kind = "flip" /\ Len(decoded) >= 1)
        => /\ damage.at \in CrcField \cup KeyField \cup ValueField
                => decoded[1].res = BadCrc
           /\ damage.at \in TimestampField
                => /\ decoded[1].res =
                        DeOk([written[1] EXCEPT !.timestamp = SubSeq(log, 5, 12)])
                   /\ decoded[1].res.kv.timestamp /= written[1].timestamp

C2_Witness ==
    /\ damage.kind = "flip"
    /\ damage.at \in ValueField
    /\ Len(decoded) = 1
    /\ decoded[1].res = BadCrc

(* C3: deserialize fails with "Input too short" for every input of fewer    *)
(* than 16 bytes, whatever it holds, for every proper prefix of a valid     *)
(* record, and whenever the input is shorter than 16 + the declared key     *)
(* length + the declared value length.                                      *)
C3_TruncationRejected ==
    \A k \in 1..Len(decoded) :
        LET input == SubSeq(log, decoded[k].at + 1, Len(log))
        IN  (\/ Len(input) < HeaderSize
             \/ damage.kind = "truncate"
             \/ /\ Len(input) >= HeaderSize
                /\ Len(input) < HeaderSize + from_be_bytes(SubSeq(input, 13, 14))
                                           + from_be_bytes(SubSeq(input, 15, 16)))
                => decoded[k].res = TooShort

C3_Witness ==
    /\ damage.kind = "truncate"
    /\ damage.at > HeaderSize
    /\ Len(written[1].value) >= 1
    /\ Len(decoded) = 1
    /\ decoded[1].res = TooShort

(* C9: over serialize(r1) || ... || serialize(rn), deserialize called at    *)
(* the offset just past the previous record returns r1, ..., rn in order    *)
(* and ends exactly at the end of the stream; the bytes that follow a       *)
(* record do not change what its decoding returns.                          *)
C9_SequentialDecoding ==
    (/\ damage = NoDamage
     /\ written /= <<>>
     /\ \A i \in 1..Len(written) : Fits(written[i]))
        => /\ Len(decoded) <= Len(written)
           /\ \A k \in 1..Len(decoded) :
                /\ decoded[k].at = OffsetOf(k)
                /\ decoded[k].res = DeOk(written[k])
           /\ pos = OffsetOf(Len(decoded) + 1)
           /\ Len(decoded) = Len(written) => pos = Len(log)

C9_Witness ==
    /\ damage = NoDamage
    /\ Len(written) = MaxRecords
    /\ Len(decoded) = MaxRecords
    /\ pos = Len(log)
    /\ written[1] /= written[2]
    /\ Len(written[1].value) >= 1
    /\ \A k \in 1..MaxRecords : decoded[k].res = DeOk(written[k])

(* C10 as stated: the bytes serialize produces for a record whose key or    *)
(* value has 65536 bytes or more decode: deserialize succeeds on them and   *)
(* returns a record other than the one serialized.                          *)
C10_DecodableButWrong ==
    oversized /= NoOversized
        => /\ oversized.res.ok
           /\ ~oversized.equal

(* C10 amended: serialize of such a record succeeds, writes every byte of   *)
(* the key and the value and stores the lengths modulo 2^16; deserialize of *)
(* these bytes never returns the record serialized: it reads the key and    *)
(* the value at the stored lengths and fails with "Invalid CRC32 checksum", *)
(* the stored checksum being that of the whole key and value (or, should    *)
(* the two checksums collide, returns a different record).                  *)
C10_LengthTruncation ==
    oversized /= NoOversized
        => /\ oversized.key_length >= U16Range \/ oversized.value_length >= U16Range
           /\ oversized.encoded_length
                = HeaderSize + oversized.key_length + oversized.value_length
           /\ from_be_bytes(SubSeq(oversized.header, 13, 14))
                = oversized.key_length % U16Range
           /\ from_be_bytes(SubSeq(oversized.header, 15, 16))
                = oversized.value_length % U16Range
           /\ ~oversized.equal
           /\ \/ oversized.res = BadCrc
              \/ /\ oversized.res.ok
                 /\ Len(oversized.res.kv.key) = oversized.key_length % U16Range
                 /\ Len(oversized.res.kv.value) = oversized.value_length % U16Range

C10_Witness ==
    /\ oversized.key_length = U16Range + 1
    /\ oversized.value_length = 1
    /\ from_be_bytes(SubSeq(oversized.header, 13, 14)) = 1
    /\ oversized.res = BadCrc

-----------------------------------------------------------------------------
(* Properties of the key directory. *)

\* a call that inserts or removes the entry of key k
Mutates(call, k) == call.name \in {"add_key", "remove_key"} /\ call.key = k

(* C4: a load that finds the file of a completed save, in a fresh           *)
(* BitcaskKeyFile or not, succeeds and yields the mapping as it was when    *)
(* save was called, whatever was added or removed since.                    *)
C4_SaveLoadRoundTrip ==
    /\ disk.exists => bincode_deserialize(disk.bytes) = [ok |-> TRUE, map |-> snapshot]
    /\ (op.name = "load" /\ disk.exists) => (ret = Ok /\ key_map = snapshot)

C4_Witness ==
    /\ op.name = "load"
    /\ disk.exists
    /\ ret = Ok
    /\ key_map = snapshot
    /\ DOMAIN key_map = KeyNames
    /\ \E j, k \in KeyNames : key_map[j] /= key_map[k]

(* C5: whenever the file can be observed, also after a save that crashed    *)
(* or failed, it holds a complete snapshot (that of the last completed      *)
(* save), and load never fails.                                             *)
C5_AtomicSave ==
    /\ disk.exists => bincode_deserialize(disk.bytes) = [ok |-> TRUE, map |-> snapshot]
    /\ op.name = "load" => ret = Ok

\* in every state: the mapping against the last add_key/remove_key of each key
C6_State ==
    /\ \A k \in KeyNames :
        /\ last[k].kind = "add" => get(key_map, k) = Some(last[k].v)
        /\ last[k].kind \in {"none", "remove"} => get(key_map, k) = None
    /\ op.name = "get_key_info" => ret = Returned(get(key_map, op.key))
    /\ op.name = "remove_key" => get(key_map, op.key) = None

\* in every step: what remove_key returns, and what the other keys keep
C6_Step ==
    /\ op'.name = "remove_key" => ret' = Returned(get(key_map, op'.key))
    /\ op'.name \in {"add_key", "remove_key"}
        => \A j \in KeyNames \ {op'.key} : get(key_map', j) = get(key_map, j)

(* C6: get_key_info(k) returns the entry of the most recent add_key(k, ..)  *)
(* not followed by remove_key(k), and nothing if there is none;             *)
(* remove_key(k) returns what get_key_info(k) would have returned and       *)
(* leaves no entry for k; add_key(k, ..) and remove_key(k) leave the        *)
(* entries of the other keys as they were.                                  *)
C6_FiniteMap == []C6_State /\ [][C6_Step]_vars

C6_Witness ==
    /\ op.name = "remove_key"
    /\ ret.v.some
    /\ \E j \in KeyNames \ {op.key} : last[j].kind = "add" /\ j \in DOMAIN key_map

(* C7 as stated: get_key_info leaves the mapping as it is, and between two  *)
(* calls on the same BitcaskKeyFile only add_key(k, ..) and remove_key(k)   *)
(* change what get_key_info(k) returns: no call on another key, no save     *)
(* and no load does.                                                        *)
C7_OnlyMutationsChangeLookup ==
    [][op'.name /= "new"
        => /\ op'.name = "get_key_info"
                => key_map' = key_map /\ ret' = Returned(get(key_map, op'.key))
           /\ \A k \in KeyNames :
                ~Mutates(op', k) => get(key_map', k) = get(key_map, k)]_vars

(* C7 amended: the same, but for load: a load that finds the file replaces  *)
(* the whole mapping by the saved one, and with it what get_key_info(k)     *)
(* returns.                                                                 *)
C7_LookupsStableButForLoad ==
    [][op'.name /= "new"
        => /\ op'.name = "get_key_info"
                => key_map' = key_map /\ ret' = Returned(get(key_map, op'.key))
           /\ \A k \in KeyNames :
                (~Mutates(op', k) /\ ~(op'.name = "load" /\ disk.exists))
                    => get(key_map', k) = get(key_map, k)]_vars

C7_Witness ==
    /\ op.name = "get_key_info"
    /\ ret.v.some
    /\ disk.exists
    /\ snapshot /= key_map
    /\ last[op.key].kind = "load"

(* C8 as stated: a load that finds no file returns success and the          *)
(* directory is empty after it, whatever was added before.                  *)
C8_MissingPathLeavesEmpty ==
    (op.name = "load" /\ ~disk.exists) => (ret = Ok /\ key_map = EmptyMap)

(* C8 amended: a load that finds no file returns success and leaves the     *)
(* mapping as it was: empty if nothing was added, and with the entries      *)
(* added before the load otherwise.                                         *)
C8_MissingPathLeavesMapping ==
    /\ [](op.name = "load" /\ ~disk.exists => ret = Ok)
    /\ [][op'.name = "load" /\ ~disk.exists => key_map' = key_map]_vars

C8_Witness ==
    /\ op.name = "load"
    /\ ~disk.exists
    /\ ret = Ok
    /\ DOMAIN key_map = KeyNames

====
